---- MODULE Spec2Model ----
(***************************************************************************)
(* Session manager and action handlers of the browser automation server    *)
(* (src/app.py).  The module-level globals playwright, browser_context,    *)
(* page and current_browser are the state; every handler is split at its   *)
(* await points, so that requests can be run one at a time (Spec) or       *)
(* interleaved on the event loop (ConcSpec).                               *)
(***************************************************************************)
EXTENDS Integers, FiniteSets, Sequences, TLC

\* ---------------------------------------------------------------- bounds
MaxRequests == 3      \* requests in flight at once under ConcSpec
MaxCtx      == 3      \* browser contexts launched in one run
MaxDrivers  == 2      \* automation drivers started in one run
MaxMatches  == 2      \* elements a locator can match

\* ------------------------------------------------------------ identifiers
None    == "None"     \* Python None for an Optional[str]
Omitted == "Omitted"  \* field left out of the request body
NoId    == 0          \* Python None for an object reference

\* engine identifiers a client can send in the browser field
Names == {"chromium", "firefox", "webkit", "Firefox", "WEBKIT", "edge", ""}

CtxIds == 1..MaxCtx
Reqs   == 1..MaxRequests

VARIABLES
    playwright,       \* global: running driver handle or NoId      (app.py:133)
    browser_context,  \* global: BrowserContext handle or NoId      (app.py:134)
    page,             \* global: Page handle or NoId                (app.py:135)
    current_browser,  \* global: recorded engine name               (app.py:136)
    liveDrv,          \* driver processes started and not stopped
    liveCtx,          \* browser contexts (processes) that are running
    openPages,        \* pages that exist and do not report is_closed()
    engineOf,         \* context -> engine kind it was launched with
    driverOf,         \* context -> driver that launched it
    nextCtx,          \* next fresh context handle
    nextDrv,          \* next fresh driver handle
    req               \* per request: handler, position, locals, response

session == <<playwright, browser_context, page, current_browser>>
world   == <<liveDrv, liveCtx, openPages, engineOf, driverOf, nextCtx, nextDrv>>
vars    == <<playwright, browser_context, page, current_browser,
             liveDrv, liveCtx, openPages, engineOf, driverOf, nextCtx, nextDrv, req>>

\* ------------------------------------------------------- pure functions

Lower_identity(s) == s
\* str.lower() on the identifiers of Names
Lower(s) ==
    CASE s = "Firefox" -> "firefox"
      [] s = "WEBKIT"  -> "webkit"
      [] OTHER         -> s

BrowserType_noWebkit(bn) == IF bn = "firefox" THEN "Firefox" ELSE "Chromium"
\* the if/elif/else over the lower-cased name: which launcher is used
BrowserType(bn) ==
    IF bn = "firefox" THEN "Firefox"
    ELSE IF bn = "webkit" THEN "WebKit"
    ELSE "Chromium"

\* pydantic defaults of the browser field
NavigateInput(b)      == IF b = Omitted THEN "chromium" ELSE b
NavigateToUrlInput(b) == IF b = Omitted THEN "chromium" ELSE b

\* Python truthiness of an Optional[str]
Truthy(s) == s # None /\ s # ""

ResolveName_alwaysDefault(name) == IF name = None THEN "chromium" ELSE name
\* "if browser_name is None: browser_name = current_browser"
ResolveName(name) == IF name = None THEN current_browser ELSE name

ReusePage_noClosedCheck(bn) == page # NoId /\ current_browser = bn
\* "if page and not page.is_closed() and current_browser == browser_name"
ReusePage(bn) == page # NoId /\ page \in openPages /\ current_browser = bn

SessionRecorded_driver == playwright # NoId
\* "if browser_context:" at the top of close()
SessionRecorded == browser_context # NoId

DriverToStop_none == NoId
\* "if playwright: await playwright.stop()" in close()
DriverToStop == playwright

MustCloseFirst_never(bn) == FALSE
\* "if browser_context and current_browser != browser_name"
MustCloseFirst(bn) == browser_context # NoId /\ current_browser # bn

\* what each handler turns an exception of its try block into
ExceptionResult(op) ==
    CASE op = "navigate"        -> "500"
      [] op = "navigate_to_url" -> "500 Navigation failed"
      [] op = "click"           -> "500 Click failed"
      [] op = "fill"            -> "500 Fill failed"
      [] OTHER                  -> "unhandled exception"

\* ---------------------------------------------------------------- state

IdleReq == [op |-> "none", pc |-> "idle", arg |-> None, bn |-> None,
            tctx |-> NoId, tdrv |-> NoId, ldrv |-> NoId, nctx |-> NoId,
            page |-> NoId, sel |-> None, text |-> None, n |-> 0,
            path |-> "none", had |-> FALSE, issued |-> "", raised |-> "",
            afterClose |-> FALSE, field |-> None, count |-> -1, fault |-> FALSE,
            res |-> ""]

Init ==
    /\ playwright = NoId
    /\ browser_context = NoId
    /\ page = NoId
    /\ current_browser = "chromium"
    /\ liveDrv = {}
    /\ liveCtx = {}
    /\ openPages = {}
    /\ engineOf = [c \in CtxIds |-> "none"]
    /\ driverOf = [c \in CtxIds |-> NoId]
    /\ nextCtx = 1
    /\ nextDrv = 1
    /\ req = [r \in Reqs |-> IdleReq]

Idle(r) == req[r].pc \in {"idle", "done"}
InFlight == {r \in Reqs : ~Idle(r)}

\* a fresh request record; afterClose remembers that the response just before
\* it was the one of a close, had that a context was recorded at the call.
\* Further history kept with a request: field is the browser field as sent,
\* count the result of locator.count() (-1: not asked), fault that the page
\* command itself failed
NewReq(r, op, arg, sel, text) ==
    [IdleReq EXCEPT !.op = op, !.arg = arg, !.sel = sel, !.text = text,
                    !.afterClose = (req[r].op = "close"),
                    !.had = (browser_context # NoId)]

Set(r, rec) == req' = [req EXCEPT ![r] = rec]

\* the handler returns (or raises): its locals are dropped, the response stays
Returned(r, issued, result) ==
    [req[r] EXCEPT !.pc = "done", !.bn = None, !.tctx = NoId, !.tdrv = NoId,
                   !.ldrv = NoId, !.nctx = NoId, !.n = 0,
                   !.issued = issued, !.res = result]

Return(r, issued, result) == Set(r, Returned(r, issued, result))

\* get_browser_context raises what: the calling handler's try block, if it
\* has one, turns it into its error response
Raise(r, what) ==
    Set(r, [req[r] EXCEPT !.pc = "done", !.bn = None, !.tctx = NoId, !.tdrv = NoId,
                          !.ldrv = NoId, !.nctx = NoId, !.n = 0,
                          !.raised = what, !.res = ExceptionResult(req[r].op)])


\* the contexts cs stop running: they and their pages are gone from the world
Gone(cs) ==
    /\ liveCtx' = liveCtx \ cs
    /\ openPages' = openPages \ cs
    /\ engineOf' = [c \in CtxIds |-> IF c \in cs THEN "none" ELSE engineOf[c]]
    /\ driverOf' = [c \in CtxIds |-> IF c \in cs THEN NoId ELSE driverOf[c]]

\* the contexts the driver d runs
CtxOfDriver(d) == {c \in liveCtx : driverOf[c] = d}

\* ------------------------------------------------- get_browser_context
\* Entry of get_browser_context(browser_name) up to its first await (or to
\* its return when the live page is reused).  rec is the caller's record.
get_browser_context(r, rec) ==
    LET bn == ResolveName(rec.arg) IN
    IF ReusePage(bn) THEN
        /\ Set(r, [rec EXCEPT !.pc = "acquired", !.bn = bn, !.page = page,
                              !.path = "reuse"])
        /\ UNCHANGED <<session, world>>
    ELSE IF MustCloseFirst(bn) THEN
        \* await browser_context.close()
        /\ Set(r, [rec EXCEPT !.pc = "gbc_close", !.bn = bn,
                              !.tctx = browser_context, !.path = "switch"])
        /\ UNCHANGED <<session, world>>
    ELSE IF playwright = NoId THEN
        \* await async_playwright().start()
        /\ Set(r, [rec EXCEPT !.pc = "gbc_start", !.bn = bn,
                     !.path = IF browser_context # NoId THEN "stale" ELSE "first"])
        /\ UNCHANGED <<session, world>>
    ELSE
        \* browser_type = playwright.<engine>; await launch_persistent_context
        /\ Set(r, [rec EXCEPT !.pc = "gbc_launch", !.bn = Lower(bn),
                     !.ldrv = playwright,
                     !.path = IF browser_context # NoId THEN "stale" ELSE "first"])
        /\ UNCHANGED <<session, world>>

\* browser_context.close() has completed; "if playwright: await playwright.stop()"
gbc_close_done(r) ==
    /\ req[r].pc = "gbc_close"
    /\ Gone({req[r].tctx})
    /\ IF playwright # NoId
       THEN /\ Set(r, [req[r] EXCEPT !.pc = "gbc_stop", !.tdrv = playwright])
            /\ UNCHANGED session
       ELSE /\ browser_context' = NoId
            /\ playwright' = NoId
            /\ page' = NoId
            /\ Set(r, [req[r] EXCEPT !.pc = "gbc_start"])
            /\ UNCHANGED current_browser
    /\ UNCHANGED <<liveDrv, nextCtx, nextDrv>>

\* playwright.stop() has completed: the driver and every browser it runs are
\* gone; the three globals are cleared and a new driver is started
gbc_stop_done(r) ==
    /\ req[r].pc = "gbc_stop"
    /\ liveDrv' = liveDrv \ {req[r].tdrv}
    /\ Gone(CtxOfDriver(req[r].tdrv))
    /\ browser_context' = NoId
    /\ playwright' = NoId
    /\ page' = NoId
    /\ Set(r, [req[r] EXCEPT !.pc = "gbc_start"])
    /\ UNCHANGED <<current_browser, nextCtx, nextDrv>>

\* async_playwright().start() has completed; the name is lower-cased, the
\* launcher is taken from the driver and the launch is awaited
gbc_start_done(r) ==
    /\ req[r].pc = "gbc_start"
    /\ nextDrv <= MaxDrivers
    /\ playwright' = nextDrv
    /\ liveDrv' = liveDrv \cup {nextDrv}
    /\ nextDrv' = nextDrv + 1
    /\ Set(r, [req[r] EXCEPT !.pc = "gbc_launch", !.bn = Lower(req[r].bn),
                             !.ldrv = nextDrv])
    /\ UNCHANGED <<browser_context, page, current_browser,
                   liveCtx, openPages, engineOf, driverOf, nextCtx>>

\* launch_persistent_context has returned a context; its first page is taken
\* if it has one, otherwise new_page() is awaited
gbc_launch_done(r) ==
    /\ req[r].pc = "gbc_launch"
    /\ req[r].ldrv \in liveDrv
    /\ nextCtx <= MaxCtx
    /\ liveCtx' = liveCtx \cup {nextCtx}
    /\ engineOf' = [engineOf EXCEPT ![nextCtx] = BrowserType(req[r].bn)]
    /\ driverOf' = [driverOf EXCEPT ![nextCtx] = req[r].ldrv]
    /\ nextCtx' = nextCtx + 1
    /\ browser_context' = nextCtx
    /\ \E hasPage \in BOOLEAN :
         IF hasPage
         THEN /\ openPages' = openPages \cup {nextCtx}
              /\ page' = nextCtx
              /\ current_browser' = req[r].bn
              /\ Set(r, [req[r] EXCEPT !.pc = "acquired", !.page = nextCtx])
         ELSE /\ Set(r, [req[r] EXCEPT !.pc = "gbc_newpage", !.nctx = nextCtx])
              /\ UNCHANGED <<openPages, page, current_browser>>
    /\ UNCHANGED <<playwright, liveDrv, nextDrv>>

\* launch_persistent_context raises: the exception leaves get_browser_context
\* and is handled (or not) by the calling handler
gbc_launch_fail(r) ==
    /\ req[r].pc = "gbc_launch"
    /\ Raise(r, "launch")
    /\ UNCHANGED <<session, world>>

\* browser_context.new_page() has returned
gbc_newpage_done(r) ==
    /\ req[r].pc = "gbc_newpage"
    /\ req[r].nctx \in liveCtx
    /\ openPages' = openPages \cup {req[r].nctx}
    /\ page' = req[r].nctx
    /\ current_browser' = req[r].bn
    /\ Set(r, [req[r] EXCEPT !.pc = "acquired", !.page = req[r].nctx])
    /\ UNCHANGED <<playwright, browser_context,
                   liveDrv, liveCtx, engineOf, driverOf, nextCtx, nextDrv>>

\* browser_context.new_page() raises because the context is gone
gbc_newpage_fail(r) ==
    /\ req[r].pc = "gbc_newpage"
    /\ req[r].nctx \notin liveCtx
    /\ Raise(r, "new_page")
    /\ UNCHANGED <<session, world>>

\* ----------------------------------------------------------------- close
\* close(): entry up to the first await, or the whole handler when no
\* context is recorded
close(r) ==
    /\ Idle(r)
    /\ IF SessionRecorded
       THEN Set(r, [NewReq(r, "close", None, None, None) EXCEPT
                      !.pc = "close_ctx", !.tctx = browser_context])
       ELSE Set(r, [NewReq(r, "close", None, None, None) EXCEPT
                      !.pc = "done", !.res = "No browser running"])
    /\ UNCHANGED <<session, world>>

\* browser_context.close() has completed; "if playwright: await playwright.stop()"
close_ctx_done(r) ==
    /\ req[r].pc = "close_ctx"
    /\ Gone({req[r].tctx})
    /\ IF DriverToStop # NoId
       THEN /\ Set(r, [req[r] EXCEPT !.pc = "close_stop", !.tdrv = DriverToStop])
            /\ UNCHANGED session
       ELSE /\ browser_context' = NoId
            /\ playwright' = NoId
            /\ page' = NoId
            /\ current_browser' = "chromium"
            /\ Return(r, "", "Browser closed")
    /\ UNCHANGED <<liveDrv, nextCtx, nextDrv>>

\* playwright.stop() has completed; globals reset, "Browser closed" returned
close_stop_done(r) ==
    /\ req[r].pc = "close_stop"
    /\ liveDrv' = liveDrv \ {req[r].tdrv}
    /\ Gone(CtxOfDriver(req[r].tdrv))
    /\ browser_context' = NoId
    /\ playwright' = NoId
    /\ page' = NoId
    /\ current_browser' = "chromium"
    /\ Return(r, "", "Browser closed")
    /\ UNCHANGED <<nextCtx, nextDrv>>


\* ------------------------------------------------------------- handlers
\* engine identifiers, selectors and texts the requests are drawn from
BrowserFields == Names \cup {None, Omitted}
Selectors     == {None, "", "#q"}
Texts         == {None, "", "Search"}

\* outcomes of a command sent to a page: it can always fail (timeout, script
\* error); it can succeed only on a page that is still open
Outcomes(p) == IF p \in openPages THEN BOOLEAN ELSE {FALSE}

Finish(r, result) == Return(r, "", result)

NoGlobalAssigned_resetsPage ==
    page' = NoId /\ UNCHANGED <<playwright, browser_context, current_browser, world>>
\* once get_browser_context has returned, a handler works on its local page
\* only: it declares no global and closes or launches nothing, whether its
\* commands succeed or raise
NoGlobalAssigned == UNCHANGED <<session, world>>

NotFound_never(n) == FALSE
\* "if count == 0: raise HTTPException(status_code=400, ...)"
NotFound(n) == n = 0

\* locator.count() has returned n: the 400 of a selector that matches nothing,
\* or on to the command at position next
Counted(r, n, next) ==
    IF NotFound(n)
    THEN Set(r, [req[r] EXCEPT !.pc = "done", !.count = n, !.res = "400 not found"])
    ELSE Set(r, [req[r] EXCEPT !.pc = next, !.n = n, !.count = n])

\* POST /navigate: get_browser_context(input.browser)
navigate(r, b) ==
    /\ Idle(r)
    /\ get_browser_context(r, [NewReq(r, "navigate", NavigateInput(b), None, None)
                                 EXCEPT !.field = b])

\* ... then page.goto("about:blank")
navigate_goto(r) ==
    /\ req[r].pc = "acquired" /\ req[r].op = "navigate"
    /\ \E ok \in Outcomes(req[r].page) :
         Return(r, "goto",
                IF ok THEN "success" ELSE "500")
    /\ NoGlobalAssigned

\* POST /navigate_to_url: get_browser_context(input.browser)
navigate_to_url(r, b) ==
    /\ Idle(r)
    /\ get_browser_context(r, [NewReq(r, "navigate_to_url", NavigateToUrlInput(b),
                                      None, None) EXCEPT !.field = b])

\* ... then headers, goto, the optional waits and title(); any exception of
\* the sequence becomes the same 500
navigate_to_url_goto(r) ==
    /\ req[r].pc = "acquired" /\ req[r].op = "navigate_to_url"
    /\ \E ok \in Outcomes(req[r].page) :
         Return(r, "goto",
                IF ok THEN "success" ELSE "500 Navigation failed")
    /\ NoGlobalAssigned

\* POST /click: get_browser_context() with no engine
click(r, sel, text) ==
    /\ Idle(r)
    /\ get_browser_context(r, NewReq(r, "click", None, sel, text))

\* ... then the selector / text / neither branches up to the next await
click_branch(r) ==
    /\ req[r].pc = "acquired" /\ req[r].op = "click"
    /\ IF Truthy(req[r].sel)
       THEN \* await element.count()
            \E ok \in Outcomes(req[r].page), n \in 0..MaxMatches :
              IF ~ok THEN Finish(r, "500 Click failed")
              ELSE Counted(r, n, "click_first")
       ELSE IF Truthy(req[r].text)
       THEN Set(r, [req[r] EXCEPT !.pc = "click_eval"])
       ELSE Finish(r, "400 Either selector or text must be provided.")
    /\ NoGlobalAssigned

\* await element.first.click()
click_first(r) ==
    /\ req[r].pc = "click_first"
    /\ \E ok \in Outcomes(req[r].page) :
         Return(r, "click",
                IF ok THEN "Clicked first element" ELSE "500 Click failed")
    /\ NoGlobalAssigned

\* await page.evaluate(script): the script clicks the first element whose
\* text matches, or reports that there is none
click_eval(r) ==
    /\ req[r].pc = "click_eval"
    /\ \E ok \in Outcomes(req[r].page), found \in BOOLEAN :
         Return(r, "evaluate",
                IF ~ok THEN "500 Click failed"
                           ELSE IF found THEN "Clicked: text"
                           ELSE "No element found with text")
    /\ NoGlobalAssigned

\* POST /fill: get_browser_context() with no engine
fill(r, sel) ==
    /\ Idle(r)
    /\ get_browser_context(r, NewReq(r, "fill", None, sel, None))

\* ... then await element.count()
fill_count(r) ==
    /\ req[r].pc = "acquired" /\ req[r].op = "fill"
    /\ \E ok \in Outcomes(req[r].page), n \in 0..MaxMatches :
         IF ~ok THEN Finish(r, "500 Fill failed")
         ELSE Counted(r, n, "fill_fill")
    /\ NoGlobalAssigned

\* element.fill(value) is called on the locator itself, not on .first: a
\* locator command is strict and raises when n > 1 elements match
FillApplies(n) == n = 1

\* await element.fill(value)
fill_fill(r) ==
    /\ req[r].pc = "fill_fill"
    /\ \E ok \in Outcomes(req[r].page) :
         Set(r, [Returned(r, "fill",
                          IF ok /\ FillApplies(req[r].n) THEN "Filled"
                          ELSE "500 Fill failed")
                   EXCEPT !.fault = ~ok])
    /\ NoGlobalAssigned

\* POST /screenshot: get_browser_context() with no engine, no try block
screenshot(r) ==
    /\ Idle(r)
    /\ get_browser_context(r, NewReq(r, "screenshot", None, None, None))

\* ... then page.screenshot / locator.screenshot
screenshot_take(r) ==
    /\ req[r].pc = "acquired" /\ req[r].op = "screenshot"
    /\ \E ok \in Outcomes(req[r].page) :
         Return(r, "screenshot",
                IF ok THEN "Screenshot saved"
                           ELSE ExceptionResult("screenshot"))
    /\ NoGlobalAssigned

\* POST /eval: get_browser_context() with no engine, no try block
eval(r) ==
    /\ Idle(r)
    /\ get_browser_context(r, NewReq(r, "eval", None, None, None))

\* ... then page.evaluate(input.script)
eval_evaluate(r) ==
    /\ req[r].pc = "acquired" /\ req[r].op = "eval"
    /\ \E ok \in Outcomes(req[r].page) :
         Return(r, "evaluate",
                IF ok THEN "eval result"
                           ELSE ExceptionResult("eval"))
    /\ NoGlobalAssigned

\* ----------------------------------------------------------- environment
\* the active page is closed (by a script, a click or the user) while its
\* browser keeps running
page_closes(c) ==
    /\ c \in openPages
    /\ openPages' = openPages \ {c}
    /\ UNCHANGED <<session, req, liveDrv, liveCtx, engineOf, driverOf, nextCtx, nextDrv>>

\* the browser process dies: its context and its page are gone
browser_dies(c) ==
    /\ c \in liveCtx
    /\ Gone({c})
    /\ UNCHANGED <<session, req, liveDrv, nextCtx, nextDrv>>

\* ------------------------------------------------------- specifications
Call(r) ==
    \/ \E b \in BrowserFields : navigate(r, b)
    \/ \E b \in BrowserFields : navigate_to_url(r, b)
    \/ \E sel \in Selectors, text \in Texts : click(r, sel, text)
    \/ \E sel \in Selectors \ {None} : fill(r, sel)
    \/ screenshot(r)
    \/ eval(r)
    \/ close(r)

Resume(r) ==
    \/ gbc_close_done(r)
    \/ gbc_stop_done(r)
    \/ gbc_start_done(r)
    \/ gbc_launch_done(r)
    \/ gbc_launch_fail(r)
    \/ gbc_newpage_done(r)
    \/ gbc_newpage_fail(r)
    \/ close_ctx_done(r)
    \/ close_stop_done(r)
    \/ navigate_goto(r)
    \/ navigate_to_url_goto(r)
    \/ click_branch(r)
    \/ click_first(r)
    \/ click_eval(r)
    \/ fill_count(r)
    \/ fill_fill(r)
    \/ screenshot_take(r)
    \/ eval_evaluate(r)

Env ==
    \/ \E c \in CtxIds : page_closes(c)
    \/ \E c \in CtxIds : browser_dies(c)

\* requests run one at a time: there is a single client, whose next request
\* starts (guard Idle of every handler) only when its last one has returned
Next ==
    \/ Call(1)
    \/ Resume(1)
    \/ Env

Spec == Init /\ [][Next]_vars

\* requests run one at a time, no launch raises and neither the browser nor
\* its page goes away on its own; page commands may still fail
HappyResume(r) ==
    \/ gbc_close_done(r)
    \/ gbc_stop_done(r)
    \/ gbc_start_done(r)
    \/ gbc_launch_done(r)
    \/ gbc_newpage_done(r)
    \/ close_ctx_done(r)
    \/ close_stop_done(r)
    \/ navigate_goto(r)
    \/ navigate_to_url_goto(r)
    \/ click_branch(r)
    \/ click_first(r)
    \/ click_eval(r)
    \/ fill_count(r)
    \/ fill_fill(r)
    \/ screenshot_take(r)
    \/ eval_evaluate(r)

HappyNext ==
    \/ Call(1)
    \/ HappyResume(1)

HappySpec == Init /\ [][HappyNext]_vars

\* requests interleave at their await points, as on the asyncio event loop;
\* every client sends one request, drawn from the calls that reach the
\* session manager
ConcFields == {"chromium", "firefox"}

ConcCall(r) ==
    \/ \E b \in ConcFields : req[r].pc = "idle" /\ navigate(r, b)
    \/ req[r].pc = "idle" /\ eval(r)
    \/ req[r].pc = "idle" /\ close(r)

ConcResume(r) ==
    \/ gbc_close_done(r)
    \/ gbc_stop_done(r)
    \/ gbc_start_done(r)
    \/ gbc_launch_done(r)
    \/ gbc_launch_fail(r)
    \/ gbc_newpage_done(r)
    \/ gbc_newpage_fail(r)
    \/ close_ctx_done(r)
    \/ close_stop_done(r)
    \/ navigate_goto(r)
    \/ eval_evaluate(r)

ConcNext ==
    \/ \E r \in Reqs : ConcCall(r)
    \/ \E r \in Reqs : ConcResume(r)

ConcSpec == Init /\ [][ConcNext]_vars


\* ================================================================ claims
\* The Engine Selector as the specification states it: case-insensitive,
\* Chromium for anything that is not firefox or webkit.
Selected(name) ==
    CASE name \in {"firefox", "Firefox"} -> "Firefox"
      [] name \in {"webkit", "WEBKIT"}   -> "WebKit"
      [] OTHER                           -> "Chromium"

NoEngineOps == {"click", "fill", "screenshot", "eval"}

\* a session is Ready and its page is not closed
ReadyOpen == browser_context # NoId /\ page # NoId /\ page \in openPages

\* this step is request r entering a handler that calls get_browser_context
Calls(r) == Idle(r) /\ req'[r].pc \notin {"idle", "done"} /\ req'[r].op # "close"

\* this step is get_browser_context returning a page to request r
Returns(r) == req[r].pc # "acquired" /\ req'[r].pc = "acquired"

\* C1: Reuse. When a session is Ready and its page is open, an action that
\* names no engine gets the recorded page, which is the page the preceding
\* action got and belongs to the running recorded browser; nothing is closed
\* or launched and the recorded engine stays.
C1_Reuse ==
    [][ (Calls(1) /\ req'[1].op \in NoEngineOps /\ ReadyOpen)
          => /\ req'[1].pc = "acquired"
             /\ req'[1].page = page
             /\ req[1].page = page
             /\ page = browser_context /\ browser_context \in liveCtx
             /\ session' = session
             /\ world' = world ]_vars

C1_Witness ==
    /\ req[1].pc = "acquired" /\ req[1].op \in NoEngineOps
    /\ req[1].path = "reuse" /\ req[1].page = page
    /\ current_browser = "firefox" /\ page \in openPages

\* C2: Engine switch. A request for an engine other than the one of the
\* recorded session takes the close-first path; from the moment the new
\* driver start and launch begin, the old context and the old driver are no
\* longer running and no global refers to them; when acquire returns, the
\* recorded context is running the requested engine, its page is the one
\* returned, and the recorded engine name selects that engine.
C2_SwitchTaken ==
    [][ (Calls(1) /\ req'[1].arg # None /\ browser_context \in liveCtx
           /\ Selected(req'[1].arg) # engineOf[browser_context])
          => /\ req'[1].pc = "gbc_close"
             /\ req'[1].path = "switch"
             /\ req'[1].tctx = browser_context ]_vars

C2_TornDownBeforeLaunch ==
    \A r \in Reqs :
      (req[r].path = "switch" /\ req[r].pc \in {"gbc_start", "gbc_launch", "gbc_newpage"})
        => /\ req[r].tctx \notin liveCtx
           /\ req[r].tdrv \notin liveDrv
           /\ req[r].tctx \notin {browser_context, page}
           /\ req[r].tdrv # NoId => playwright # req[r].tdrv

C2_ReturnsNewEngine ==
    [][ (Returns(1) /\ req[1].path = "switch")
          => /\ browser_context' \in liveCtx'
             /\ engineOf'[browser_context'] = Selected(req[1].arg)
             /\ Selected(current_browser') = Selected(req[1].arg)
             /\ page' = browser_context' /\ req'[1].page = page'
             /\ liveCtx' = {browser_context'}
             /\ liveDrv' = {playwright'} ]_vars

C2_EngineSwitch ==
    C2_SwitchTaken /\ []C2_TornDownBeforeLaunch /\ C2_ReturnsNewEngine

C2_Witness ==
    /\ req[1].pc = "acquired" /\ req[1].path = "switch"
    /\ req[1].arg = "firefox" /\ req[1].tdrv # NoId
    /\ browser_context \in liveCtx /\ engineOf[browser_context] = "Firefox"


\* C3: At most one session. Between requests, every running context the
\* manager launched is the recorded one; and a launch is only ever awaited
\* when the previously recorded context has been closed.
C3_AtMostOneSession ==
    /\ InFlight = {} => liveCtx \subseteq {browser_context}
    /\ \A r \in Reqs : req[r].pc = "gbc_launch" => browser_context \notin liveCtx

\* C4: Serialization. At most one request at a time is suspended inside
\* get_browser_context or inside close.
InsideManager(r) ==
    req[r].pc \in {"gbc_close", "gbc_stop", "gbc_start", "gbc_launch", "gbc_newpage",
                   "close_ctx", "close_stop"}

C4_Serialized == Cardinality({r \in Reqs : InsideManager(r)}) <= 1

\* C5: Concurrent acquire. Once two or more requests that call acquire have
\* all returned a page and no request is in flight, exactly one browser
\* context runs and it is the recorded one, and the only running driver is
\* the recorded one.
AcquiredAndDone(r) ==
    req[r].pc = "done" /\ req[r].op # "close" /\ req[r].raised = ""

C5_ConcurrentAcquire ==
    (/\ InFlight = {}
     /\ \A r \in Reqs : req[r].pc = "done" => AcquiredAndDone(r)
     /\ Cardinality({r \in Reqs : AcquiredAndDone(r)}) >= 2)
      => /\ liveCtx = {browser_context}
         /\ liveDrv = {playwright}

\* C6: Close result and idempotence. A finished close answers "Browser
\* closed" exactly when a context was recorded at the call and "No browser
\* running" otherwise, and it has one of these two answers (it never ends
\* in an error); a close whose preceding response was a close answers
\* "No browser running".
C6_CloseResult ==
    (req[1].op = "close" /\ req[1].pc = "done")
      => /\ req[1].res \in {"Browser closed", "No browser running"}
         /\ (req[1].res = "Browser closed") <=> req[1].had
         /\ req[1].raised = ""
         /\ req[1].afterClose => req[1].res = "No browser running"

C6_Witness ==
    /\ req[1].op = "close" /\ req[1].pc = "done"
    /\ req[1].afterClose /\ req[1].res = "No browser running"
    /\ nextCtx > 1

\* C7: Release frees everything. After close has returned nothing is
\* recorded or running: no context, no page, no driver, and the recorded
\* engine is "chromium".
C7_ReleaseFreesAll ==
    (req[1].op = "close" /\ req[1].pc = "done")
      => /\ browser_context = NoId /\ page = NoId /\ playwright = NoId
         /\ liveCtx = {} /\ liveDrv = {}
         /\ current_browser = "chromium"

\* C8: Staleness. The page get_browser_context returns is open at the moment
\* it is returned; a call that finds the recorded page closed does not return
\* at once, and the page it returns comes from a context launched by that call.
C8_Staleness ==
    /\ [][ Returns(1) => (req'[1].page # NoId /\ req'[1].page \in openPages') ]_vars
    /\ [][ (Calls(1) /\ page # NoId /\ page \notin openPages)
             => (req'[1].pc # "acquired" /\ req'[1].path # "reuse") ]_vars
    /\ [][ (Returns(1) /\ req[1].pc \in {"gbc_launch", "gbc_newpage"})
             => (/\ req'[1].page = browser_context'
                 /\ req'[1].page = page'
                 /\ req'[1].page \in liveCtx'
                 /\ req'[1].page \in {nextCtx, req[1].nctx}) ]_vars

C8_Witness ==
    /\ req[1].pc = "acquired" /\ req[1].path = "stale"
    /\ req[1].page = page /\ page \in openPages /\ page > 1

\* C9: Launch failure. When launch_persistent_context raises, in a first
\* launch, a relaunch of a stale session or a launch after a switch, the
\* caller gets the failure and no context and no page stay recorded.
C9_LaunchFailure ==
    (req[1].pc = "done" /\ req[1].raised = "launch")
      => /\ req[1].res = ExceptionResult(req[1].op)
         /\ browser_context = NoId
         /\ page = NoId

\* C10: Reuse on equal engine. A call that names an identifier the Engine
\* Selector maps to the engine of the running recorded session, whose page is
\* open, returns that page at once; nothing is closed or launched.
C10_ReuseOnEqualEngine ==
    [][ (Calls(1) /\ req'[1].arg # None /\ ReadyOpen /\ browser_context \in liveCtx
           /\ Selected(req'[1].arg) = engineOf[browser_context])
          => /\ req'[1].pc = "acquired"
             /\ req'[1].page = page
             /\ session' = session
             /\ world' = world ]_vars


\* C11: Navigate without an engine keeps the session. A /navigate or
\* /navigate_to_url request that leaves out the browser field, on a Ready
\* session of any engine whose page is open, gets the existing page; nothing
\* is closed or launched.
C11_NavigateKeepsSession ==
    [][ (Calls(1) /\ req'[1].op \in {"navigate", "navigate_to_url"}
           /\ req'[1].field = Omitted /\ ReadyOpen /\ browser_context \in liveCtx)
          => /\ req'[1].pc = "acquired"
             /\ req'[1].page = page
             /\ session' = session
             /\ world' = world ]_vars


\* C12: Default engine. A call that names no engine, made while no context
\* is recorded, launches Chromium.
C12_DefaultEngine ==
    [][ (req[1].pc = "gbc_launch" /\ req[1].arg = None /\ ~req[1].had
           /\ nextCtx \in liveCtx' \ liveCtx)
          => engineOf'[nextCtx] = "Chromium" ]_vars


\* C13: Page/state consistency. Whenever no request is in progress, a page
\* is recorded exactly when a context is recorded.
C13_PageIffContext ==
    InFlight = {} => (page # NoId <=> browser_context # NoId)


\* C14: Engine record matches the process. In every state, also while a
\* request is suspended, in which a session is live (the recorded context is
\* running and the recorded page is its page), the Engine Selector maps the
\* recorded engine name to the engine that context was launched with.
SessionLive == browser_context \in liveCtx /\ page = browser_context

C14_EngineRecordMatches ==
    SessionLive => Selected(current_browser) = engineOf[browser_context]

C14_Witness ==
    /\ SessionLive /\ page \in openPages
    /\ engineOf[browser_context] = "Firefox" /\ current_browser = "firefox"
    /\ req[1].pc = "done" /\ req[1].arg = "Firefox" /\ req[1].path = "switch"


\* C15: Not found. A fill, or a click by selector, whose selector was
\* counted as matching no element has ended with the 400 "not found" and
\* has sent no fill, click or other command to the page.
C15_NotFound ==
    (req[1].op \in {"click", "fill"} /\ req[1].count = 0)
      => /\ req[1].pc = "done"
         /\ req[1].res = "400 not found"
         /\ req[1].issued = ""

C15_Witness ==
    /\ req[1].op = "fill" /\ req[1].count = 0 /\ req[1].pc = "done"
    /\ req[1].res = "400 not found" /\ req[1].sel = "#q"


\* C16: Click input validation. A click request with neither a selector nor
\* a text (each absent or empty) ends with the 400 "Either selector or text
\* must be provided" and sends no command to the page.
C16_ClickNeither ==
    (req[1].op = "click" /\ req[1].pc = "done"
       /\ ~Truthy(req[1].sel) /\ ~Truthy(req[1].text))
      => /\ req[1].res = "400 Either selector or text must be provided."
         /\ req[1].issued = ""


\* C17: Failures are caught at the action boundary. Every finished request
\* of every action has a response produced by its handler; none ends with an
\* exception that left the handler.
C17_FailuresCaught ==
    \A r \in Reqs :
      req[r].pc = "done"
        => /\ req[r].res # ""
           /\ req[r].res # "unhandled exception"


\* C18: Engine Selector. Whatever identifier a request names, the context
\* its launch creates runs Firefox for "firefox" in any letter case, WebKit
\* for "webkit" in any letter case and Chromium for anything else; and no
\* request fails before its launch is awaited.
C18_EngineSelector ==
    /\ [][ (req[1].pc = "gbc_launch" /\ req[1].arg # None
              /\ nextCtx \in liveCtx' \ liveCtx)
             => engineOf'[nextCtx] = Selected(req[1].arg) ]_vars
    /\ [][ (Calls(1) /\ req'[1].arg # None /\ req'[1].pc = "done") => FALSE ]_vars
    /\ [][ (req[1].pc \in {"gbc_close", "gbc_stop", "gbc_start"})
             => req'[1].pc # "done" ]_vars

C18_Witness ==
    /\ req[1].pc = "acquired" /\ req[1].arg = "WEBKIT" /\ req[1].path = "switch"
    /\ req[1].page \in liveCtx /\ engineOf[req[1].page] = "WebKit"


\* C19: End-to-end. In a run of requests made one at a time in which no
\* launch fails and the browser does not die, once a close has returned no
\* context and no driver is running, no page is open, and the manager
\* records no context, page or driver.
C19_EndToEnd ==
    (req[1].op = "close" /\ req[1].pc = "done")
      => /\ liveCtx = {} /\ liveDrv = {} /\ openPages = {}
         /\ browser_context = NoId /\ page = NoId /\ playwright = NoId
         /\ req[1].page = NoId

C19_Witness ==
    /\ req[1].op = "close" /\ req[1].pc = "done" /\ req[1].res = "Browser closed"
    /\ nextCtx > 2 /\ liveCtx = {} /\ liveDrv = {}


\* C20: Fill with several matches. A fill whose selector was counted as
\* matching one or more elements, and whose page command did not fail for a
\* reason of the page, ends with the confirmation after sending the fill.
C20_FillSeveralMatches ==
    (req[1].op = "fill" /\ req[1].pc = "done" /\ req[1].count >= 1 /\ ~req[1].fault)
      => /\ req[1].res = "Filled"
         /\ req[1].issued = "fill"


\* C21: A failed action does not disturb the session. No step a handler
\* takes after get_browser_context has returned, in particular none that
\* ends in an error response, changes the recorded driver, context, page or
\* engine or closes or launches anything; and when the action before ended
\* in such an error with its page still open, an action that names no engine
\* gets that same page, with nothing closed or launched.
ErrorResults ==
    {"400 not found", "400 Either selector or text must be provided.", "500",
     "500 Navigation failed", "500 Click failed", "500 Fill failed",
     "unhandled exception"}

AfterAcquire == {"acquired", "click_first", "click_eval", "fill_fill"}

\* the last response of request r is an error raised after acquire returned
FailedAfterAcquire(r) ==
    /\ req[r].pc = "done" /\ req[r].op \notin {"none", "close"}
    /\ req[r].raised = "" /\ req[r].page # NoId
    /\ req[r].res \in ErrorResults

C21_FailedActionKeepsSession ==
    /\ [][ (req[1].pc \in AfterAcquire /\ req'[1] # req[1])
             => (session' = session /\ world' = world) ]_vars
    /\ [](FailedAfterAcquire(1) => req[1].page = page)
    /\ [][ (FailedAfterAcquire(1) /\ req[1].page \in openPages
              /\ Calls(1) /\ req'[1].op \in NoEngineOps)
             => /\ req'[1].pc = "acquired"
                /\ req'[1].page = req[1].page
                /\ session' = session
                /\ world' = world ]_vars

C21_Witness ==
    /\ FailedAfterAcquire(1) /\ req[1].op = "click" /\ req[1].path = "reuse"
    /\ req[1].res = "500 Click failed" /\ req[1].issued = "click"
    /\ page = req[1].page /\ page \in openPages
    /\ browser_context \in liveCtx /\ current_browser = "firefox"

====
